---------------------------- MODULE Spec2Model ----------------------------
(***************************************************************************)
(* Model of the social scheduler's persistence and query layer             *)
(* (src/src/social_scheduler.py): the SQLite store with its posts and      *)
(* campaigns tables, the SocialSchedulerDB operations, and the add command.*)
(*                                                                         *)
(* Text that SQLite compares or sorts (scheduled_at, published_at,         *)
(* created_at) is a sequence of character codes and is ordered as the      *)
(* BINARY collation orders it (memcmp, a proper prefix sorts first).       *)
(* Text that is only tested for equality (platform, status, names) is a    *)
(* TLA+ string.                                                            *)
(***************************************************************************)
EXTENDS Integers, Sequences, FiniteSets, TLC

\* ------------------------------------------------------------- bounds
MaxPosts == 2
MaxCampaigns == 2
MaxClock == 1
MaxUpcomingPosts == 12
MaxQueryPosts == 3
MaxExportPosts == 2

\* ---------------------------------------------------- program constants
\* LIMIT 10 of list_upcoming
UpcomingLimit == 10

PLATFORMS == {"twitter", "instagram", "linkedin", "facebook", "threads", "bluesky"}
STATUSES == {"draft", "scheduled", "published", "failed", "cancelled"}

\* Python None / SQL NULL, for equality-only text and for ordered text
NONE == "<None>"
NULL == <<-1>>
\* campaign_id None: no rowid is 0
NoCampaign == 0

\* ------------------------------------------------------------ helpers
Range(s) == {s[i] : i \in DOMAIN s}

Min(a, b) == IF a < b THEN a ELSE b

\* bool(x) of an Optional[str]: None and "" are false
Truthy(s) == s # NONE /\ s # ""

\* bool(x) of an ordered text value
TruthyText(t) == t # NULL /\ Len(t) > 0

\* a < b for two TEXT values under SQLite's BINARY collation
TextLess(a, b) ==
    \E k \in 1..(Min(Len(a), Len(b)) + 1) :
        /\ \A j \in 1..(k - 1) : a[j] = b[j]
        /\ \/ k > Len(a) /\ k <= Len(b)
           \/ k <= Len(a) /\ k <= Len(b) /\ a[k] < b[k]

TextLeq(a, b) == a = b \/ TextLess(a, b)

\* datetime.isoformat(): fixed-width zero-padded decimal fields, most
\* significant first (two digits stand for the whole date and time)
Isoformat(t) == <<t \div 10, t % 10>>

VARIABLES
    posts,      \* the posts table, in rowid order; row i has id i
    campaigns,  \* the campaigns table, in rowid order
    now,        \* the wall clock read by datetime.now()
    ret,        \* what the last completed operation returned
    exp_pc,     \* position of a running export_json
    exp_posts   \* export_json's value of self.list_posts()

vars == <<posts, campaigns, now, ret, exp_pc, exp_posts>>

\* the Post dataclass; created_at defaults to datetime.now().isoformat()
Post(title, content, platform, scheduled_at, status, tags, media_url, published_at, notes, created_at) ==
    [title |-> title, content |-> content, platform |-> platform,
     scheduled_at |-> scheduled_at, status |-> status, tags |-> tags,
     media_url |-> media_url, published_at |-> published_at, notes |-> notes,
     created_at |-> created_at]

\* the Campaign dataclass; status defaults to "active"
Campaign(name, description, start_date, end_date, created_at) ==
    [name |-> name, description |-> description, start_date |-> start_date,
     end_date |-> end_date, status |-> "active", created_at |-> created_at]

Return(op, args, value, raised) ==
    [op |-> op, args |-> args, value |-> value, raised |-> raised]

\* _init_db on a fresh store: both tables exist and are empty
Init ==
    /\ posts = <<>>
    /\ campaigns = <<>>
    /\ now = 0
    /\ ret = Return("init", <<>>, NONE, FALSE)
    /\ exp_pc = "idle"
    /\ exp_posts = <<>>

\* the clock advances between operations
Tick ==
    /\ now < MaxClock
    /\ now' = now + 1
    /\ UNCHANGED <<posts, campaigns, ret, exp_pc, exp_posts>>

\* ------------------------------------------------------------- writes

\* the row INSERT INTO posts stores: AUTOINCREMENT id, the post's fields
\* verbatim, and the campaign reference
InsertedPost(rows, post, campaign_id) ==
    [id |-> Len(rows) + 1, title |-> post.title, content |-> post.content,
     platform |-> post.platform, scheduled_at |-> post.scheduled_at,
     status |-> post.status, tags |-> post.tags, media_url |-> post.media_url,
     published_at |-> post.published_at, created_at |-> post.created_at,
     notes |-> post.notes, campaign_id |-> campaign_id]

\* add_post(post, campaign_id), on a store of at most max rows
add_post(post, campaign_id, max) ==
    /\ Len(posts) < max
    /\ posts' = Append(posts, InsertedPost(posts, post, campaign_id))
    /\ ret' = Return("add_post", <<post, campaign_id>>, Len(posts) + 1, FALSE)
    /\ UNCHANGED <<campaigns, now, exp_pc, exp_posts>>

\* the UNIQUE constraint on campaigns.name
NameCollides_NoConstraint(rows, name) == FALSE

NameCollides(rows, name) == \E i \in DOMAIN rows : rows[i].name = name

\* add_campaign(campaign): the insert raises IntegrityError on a name that
\* is already stored, and the connection's context manager rolls back
add_campaign(campaign) ==
    /\ IF NameCollides(campaigns, campaign.name)
       THEN /\ campaigns' = campaigns
            /\ ret' = Return("add_campaign", campaign, NONE, TRUE)
       ELSE /\ Len(campaigns) < MaxCampaigns
            /\ campaigns' = Append(campaigns,
                   [id |-> Len(campaigns) + 1] @@ campaign)
            /\ ret' = Return("add_campaign", campaign, Len(campaigns) + 1, FALSE)
    /\ UNCHANGED <<posts, now, exp_pc, exp_posts>>

\* the rows UPDATE posts SET ... WHERE id=? matches
Matches_NoWhere(rows, post_id) == DOMAIN rows

Matches(rows, post_id) == {i \in DOMAIN rows : rows[i].id = post_id}

\* published_at as update_post_status computes it
PubStamp(status, clock) == IF status = "published" THEN Isoformat(clock) ELSE NULL

\* the table after UPDATE posts SET status=?,published_at=? WHERE id=?
UpdatedPosts(rows, post_id, status, pub) ==
    [i \in DOMAIN rows |->
        IF i \in Matches(rows, post_id)
        THEN [rows[i] EXCEPT !.status = status, !.published_at = pub]
        ELSE rows[i]]

\* SELECT changes(): the rows the last UPDATE matched, whether or not their
\* values differ afterwards
Changes_OnlyDiffering(rows, post_id, status, pub) ==
    Cardinality({i \in Matches(rows, post_id) :
                    rows[i].status # status \/ rows[i].published_at # pub})

Changes(rows, post_id, status, pub) == Cardinality(Matches(rows, post_id))

\* update_post_status(post_id, status)
update_post_status(post_id, status) ==
    LET pub == PubStamp(status, now) IN
    /\ posts' = UpdatedPosts(posts, post_id, status, pub)
    /\ ret' = Return("update_post_status", <<post_id, status>>,
                     Changes(posts, post_id, status, pub) > 0, FALSE)
    /\ UNCHANGED <<campaigns, now, exp_pc, exp_posts>>


\* the status the add command gives a post: args.scheduled_at is tested for
\* truth, not for having been passed
AddStatus(scheduled_at) == IF TruthyText(scheduled_at) THEN "scheduled" ELSE "draft"

\* args.scheduled_at after parse_args: the --scheduled-at value when the
\* option was passed, else the default computed when the parser was built
ParsedScheduledAt(explicit, given, clock) ==
    IF explicit THEN given ELSE Isoformat(clock)

\* the add command: parse the arguments, build the Post, add_post it
cmd_add(title, content, platform, explicit, given, tags, media_url) ==
    LET scheduled_at == ParsedScheduledAt(explicit, given, now)
        post == Post(title, content, platform, scheduled_at,
                     AddStatus(scheduled_at), tags, media_url, NULL, "",
                     Isoformat(now))
    IN  /\ Len(posts) < MaxPosts
        /\ posts' = Append(posts, InsertedPost(posts, post, NoCampaign))
        /\ ret' = Return("cmd_add",
                         [explicit |-> explicit, platform |-> platform,
                          scheduled_at |-> scheduled_at],
                         Len(posts) + 1, FALSE)
        /\ UNCHANGED <<campaigns, now, exp_pc, exp_posts>>

\* ------------------------------------------------------------ queries

\* the WHERE clause list_posts builds: a filter that is None or empty adds
\* no clause
Where_PlatformOnly(rows, platform, status) ==
    SelectSeq(rows, LAMBDA r : Truthy(platform) => r.platform = platform)

Where(rows, platform, status) ==
    SelectSeq(rows, LAMBDA r :
        /\ Truthy(platform) => r.platform = platform
        /\ Truthy(status) => r.status = status)

\* ORDER BY scheduled_at ASC over rows scanned in rowid order (rows with
\* equal keys stay in scan order)
OrderByScheduledAt_Unsorted(rows) == rows

RECURSIVE OrderByScheduledAt(_)
OrderByScheduledAt(rows) ==
    IF Len(rows) = 0 THEN <<>>
    ELSE LET r == rows[Len(rows)]
             sorted == OrderByScheduledAt(SubSeq(rows, 1, Len(rows) - 1))
             k == Cardinality({i \in DOMAIN sorted :
                      TextLeq(sorted[i].scheduled_at, r.scheduled_at)})
         IN  SubSeq(sorted, 1, k) \o <<r>> \o SubSeq(sorted, k + 1, Len(sorted))

\* list_posts(platform, status)
list_posts(rows, platform, status) ==
    OrderByScheduledAt(Where(rows, platform, status))

\* WHERE status='scheduled' AND scheduled_at > ?
UpcomingRow_NotBefore(r, stamp) ==
    r.status = "scheduled" /\ TextLeq(stamp, r.scheduled_at)

UpcomingRow(r, stamp) ==
    r.status = "scheduled" /\ TextLess(stamp, r.scheduled_at)

\* LIMIT n
Limit(rows, n) == SubSeq(rows, 1, Min(n, Len(rows)))

\* list_upcoming() at clock reading clock
list_upcoming(rows, clock) ==
    Limit(OrderByScheduledAt(
              SelectSeq(rows, LAMBDA r : UpcomingRow(r, Isoformat(clock)))),
          UpcomingLimit)

\* SELECT key,COUNT(*) ... GROUP BY key, read into a dict: one entry per
\* key value that occurs
GroupCount_Distinct(keys) == [k \in Range(keys) |-> 1]

GroupCount(keys) ==
    [k \in Range(keys) |-> Cardinality({i \in DOMAIN keys : keys[i] = k})]

\* get_stats()
get_stats(rows, camps) ==
    [by_status |-> GroupCount([i \in DOMAIN rows |-> rows[i].status]),
     by_platform |-> GroupCount([i \in DOMAIN rows |-> rows[i].platform]),
     total_campaigns |-> Len(camps)]

ListPosts(platform, status) ==
    /\ ret' = Return("list_posts", <<platform, status>>,
                     list_posts(posts, platform, status), FALSE)
    /\ UNCHANGED <<posts, campaigns, now, exp_pc, exp_posts>>

ListUpcoming ==
    /\ ret' = Return("list_upcoming", <<Isoformat(now)>>,
                     list_upcoming(posts, now), FALSE)
    /\ UNCHANGED <<posts, campaigns, now, exp_pc, exp_posts>>

GetStats ==
    /\ ret' = Return("get_stats", <<>>, get_stats(posts, campaigns), FALSE)
    /\ UNCHANGED <<posts, campaigns, now, exp_pc, exp_posts>>

\* export_json(): self.list_posts() and self.get_stats() each open their own
\* connection, so the two reads are two transactions on the store
ExportListPosts ==
    /\ exp_pc = "idle"
    /\ exp_posts' = list_posts(posts, NONE, NONE)
    /\ exp_pc' = "listed"
    /\ UNCHANGED <<posts, campaigns, now, ret>>

ExportGetStats ==
    /\ exp_pc = "listed"
    /\ ret' = Return("export_json", <<>>,
                     [posts |-> exp_posts,
                      stats |-> get_stats(posts, campaigns),
                      exported_at |-> Isoformat(now)], FALSE)
    /\ exp_pc' = "idle"
    /\ exp_posts' = <<>>
    /\ UNCHANGED <<posts, campaigns, now>>

\* ------------------------------------------- the store under writes

\* add_post calls of a caller of the class: the post it builds (created_at
\* is the dataclass default) and the campaign it names
PostInputs(clock) ==
    {<<Post("Launch", "v1", "twitter", <<0, 9>>, "draft", "", "", NULL, "",
            Isoformat(clock)), NoCampaign>>,
     <<Post("Launch", "v1", "twitter", <<0, 9>>, "published", "", "", NULL, "",
            Isoformat(clock)), 1>>}

\* campaigns a caller builds, with created_at passed rather than defaulted
CampaignInputs ==
    {Campaign(name, "", <<0, 1>>, <<0, 9>>, <<0, 0>>) :
        name \in {"launch", "promo"}}

AddPost ==
    \E call \in PostInputs(now) : add_post(call[1], call[2], MaxPosts)

UpdatePostStatus ==
    \E post_id \in 1..(MaxPosts + 1), status \in {"published", "draft"} :
        update_post_status(post_id, status)

AddCampaign ==
    \E campaign \in CampaignInputs : add_campaign(campaign)

Next == AddPost \/ UpdatePostStatus \/ AddCampaign \/ Tick

Spec == Init /\ [][Next]_vars

\* ------------------------------------------------- the add command

CmdAdd ==
    \E platform \in {"twitter", "bluesky"}, explicit \in BOOLEAN,
       given \in {<<>>, <<0, 0>>, <<0, 9>>} :
        cmd_add("Launch", "v1", platform, explicit, given, "", "")

NextAdd == CmdAdd \/ Tick

SpecAdd == Init /\ [][NextAdd]_vars

\* ------------------------------------------- the store under queries

QueryPostInputs(clock) ==
    {Post("Launch", "v1", pl, at, st, "", "", NULL, "", Isoformat(clock)) :
        pl \in {"twitter", "instagram"}, at \in {<<0, 5>>, <<0, 1>>},
        st \in {"draft", "scheduled"}}

AddPostForQuery ==
    \E post \in QueryPostInputs(now) : add_post(post, NoCampaign, MaxQueryPosts)

QueryListPosts ==
    \E platform \in {NONE, "", "twitter"}, status \in {NONE, "draft"} :
        ListPosts(platform, status)

NextQuery == AddPostForQuery \/ AddCampaign \/ QueryListPosts \/ GetStats

SpecQuery == Init /\ [][NextQuery]_vars

\* ------------------------------------------------- upcoming posts

UpcomingPostInputs ==
    {Post("Launch", "v1", "twitter", <<0, 1>>, st, "", "", NULL, "", <<0, 0>>) :
        st \in {"scheduled", "draft"}}

AddPostForUpcoming ==
    \E post \in UpcomingPostInputs : add_post(post, NoCampaign, MaxUpcomingPosts)

NextUpcoming == AddPostForUpcoming \/ ListUpcoming \/ Tick

SpecUpcoming == Init /\ [][NextUpcoming]_vars

\* ------------------------- export_json beside another scheduler process

AddPostForExport ==
    \E call \in PostInputs(now) : add_post(call[1], call[2], MaxExportPosts)

UpdatePostStatusForExport ==
    \E post_id \in 1..MaxExportPosts, status \in {"published", "draft"} :
        update_post_status(post_id, status)

NextExport ==
    AddPostForExport \/ UpdatePostStatusForExport \/ ExportListPosts \/ ExportGetStats

SpecExport == Init /\ [][NextExport]_vars

\* ------------------------------------------------------------- claims

\* a step in which operation op returned: every operation sets ret, and the
\* steps that leave ret alone (the clock advancing, export_json's first
\* read) change now or exp_pc
Called(op) == ret'.op = op /\ now' = now /\ exp_pc' = exp_pc

Ids(rows) == {rows[i].id : i \in DOMAIN rows}

RECURSIVE SumValues(_)
SumValues(f) ==
    IF DOMAIN f = {} THEN 0
    ELSE LET k == CHOOSE x \in DOMAIN f : TRUE
         IN  f[k] + SumValues([x \in DOMAIN f \ {k} |-> f[x]])

\* C1: every post created by the add command is stored as "draft" when no
\* --scheduled-at argument was passed and as "scheduled" when one was passed.
C1_AddStatusFollowsExplicitArgument ==
    ret.op = "cmd_add" =>
        posts[ret.value].status =
            (IF ret.args.explicit THEN "scheduled" ELSE "draft")

\* C2: in every reachable state every stored post has published_at non-null
\* if and only if its status is "published".
C2_PublishedAtIffPublished ==
    \A i \in DOMAIN posts :
        (posts[i].published_at # NULL) <=> (posts[i].status = "published")

\* C3: update_post_status(post_id, new_status) returns true exactly when a
\* post with identifier post_id is stored; when none is, it returns false,
\* raises nothing, and leaves every post and campaign as it was.
C3_UpdateReturnsWhetherPostExists ==
    [][Called("update_post_status") =>
        /\ ~ret'.raised
        /\ ret'.value = (ret'.args[1] \in Ids(posts))
        /\ ret'.args[1] \notin Ids(posts) =>
              posts' = posts /\ campaigns' = campaigns]_vars

C3_Witness ==
    /\ ret.op = "update_post_status"
    /\ ret.value = FALSE
    /\ Len(posts) > 0
    /\ Len(campaigns) > 0

\* C6: campaign names are unique in every reachable state, and an
\* add_campaign call whose name is already stored raises, adds no row and
\* leaves the stored campaigns as they were.
C6_CampaignNamesUnique ==
    /\ [](\A i, j \in DOMAIN campaigns :
              campaigns[i].name = campaigns[j].name => i = j)
    /\ [][Called("add_campaign") =>
            ((\E i \in DOMAIN campaigns : campaigns[i].name = ret'.args.name)
                => ret'.raised /\ campaigns' = campaigns)]_vars

C6_Witness ==
    /\ ret.op = "add_campaign"
    /\ ret.raised
    /\ \E i \in DOMAIN campaigns : campaigns[i].name = ret.args.name
    /\ Len(campaigns) = 2

\* C9: update_post_status(post_id, new_status) changes nothing but the
\* status and published_at of the post with identifier post_id: its other
\* fields, every other post, the set of post identifiers and all campaigns
\* stay as they were; and no step ever changes a stored post's created_at.
C9_UpdateChangesOnlyStatusAndPublishedAt ==
    /\ [][Called("update_post_status") =>
            /\ DOMAIN posts' = DOMAIN posts
            /\ Ids(posts') = Ids(posts)
            /\ campaigns' = campaigns
            /\ \A i \in DOMAIN posts :
                 /\ posts[i].id # ret'.args[1] => posts'[i] = posts[i]
                 /\ [posts'[i] EXCEPT !.status = posts[i].status,
                                      !.published_at = posts[i].published_at]
                        = posts[i]]_vars
    /\ [][\A i \in DOMAIN posts :
             i \in DOMAIN posts' /\ posts'[i].created_at = posts[i].created_at]_vars

C9_Witness ==
    /\ ret.op = "update_post_status"
    /\ ret.value = TRUE
    /\ Len(posts) = 2
    /\ ret.args = <<2, "published">>
    /\ posts[2].published_at = Isoformat(now)
    /\ posts[2].created_at # Isoformat(now)
    /\ posts[1].status = "draft"
    /\ Len(campaigns) > 0

\* C4: list_upcoming never returns more than 10 records, and every record
\* it returns has status "scheduled" and a scheduled_at strictly greater
\* than the timestamp of the call.
C4_UpcomingAtMostTenScheduledFuture ==
    ret.op = "list_upcoming" =>
        /\ Len(ret.value) <= 10
        /\ \A j \in DOMAIN ret.value :
             /\ ret.value[j].status = "scheduled"
             /\ TextLess(ret.args[1], ret.value[j].scheduled_at)

C4_Witness ==
    /\ ret.op = "list_upcoming"
    /\ Len(ret.value) = 10
    /\ Cardinality({i \in DOMAIN posts : posts[i].status = "scheduled"}) > 10
    /\ \E i \in DOMAIN posts : posts[i].status = "draft"

\* C5: get_stats counts every post in exactly one status bucket and one
\* platform bucket: each mapping's counts sum to the number of posts, a
\* status or platform without posts is absent from its mapping, and
\* total_campaigns is the number of stored campaigns.
C5_StatsCountEveryPostOnce ==
    ret.op = "get_stats" =>
        LET by_status == ret.value.by_status
            by_platform == ret.value.by_platform
        IN  /\ SumValues(by_status) = Len(posts)
            /\ SumValues(by_platform) = Len(posts)
            /\ DOMAIN by_status = {posts[i].status : i \in DOMAIN posts}
            /\ DOMAIN by_platform = {posts[i].platform : i \in DOMAIN posts}
            /\ \A k \in DOMAIN by_status : by_status[k] > 0
            /\ \A k \in DOMAIN by_platform : by_platform[k] > 0
            /\ ret.value.total_campaigns = Len(campaigns)

C5_Witness ==
    /\ ret.op = "get_stats"
    /\ Len(posts) = 3
    /\ DOMAIN ret.value.by_status = {"draft"}
    /\ ret.value.by_platform = [k \in {"twitter", "instagram"} |->
                                   IF k = "twitter" THEN 2 ELSE 1]
    /\ ret.value.total_campaigns = 2

\* C7: the sequence list_posts returns is sorted ascending by scheduled_at,
\* whatever the platform and status filters.
C7_ListPostsSorted ==
    ret.op = "list_posts" =>
        \A j \in 1..(Len(ret.value) - 1) :
            TextLeq(ret.value[j].scheduled_at, ret.value[j + 1].scheduled_at)

C7_Witness ==
    /\ ret.op = "list_posts"
    /\ ret.args = <<"twitter", "draft">>
    /\ Len(ret.value) = 3
    /\ ret.value[1].id = 2
    /\ ret.value[1].scheduled_at # ret.value[3].scheduled_at

\* a post is in a list_posts result exactly once if it passes the filters
\* and not at all if it does not, where a filter whose value is in unfiltered
\* restricts nothing
ListPostsSelects(unfiltered) ==
    ret.op = "list_posts" =>
        \A i \in DOMAIN posts :
            Cardinality({j \in DOMAIN ret.value : ret.value[j] = posts[i]}) =
                (IF /\ ret.args[1] \in unfiltered \/ posts[i].platform = ret.args[1]
                    /\ ret.args[2] \in unfiltered \/ posts[i].status = ret.args[2]
                 THEN 1 ELSE 0)

NotSupplied == {NONE}

NoneOrEmpty == {NONE, ""}

\* C8 as stated: list_posts returns exactly the stored posts that satisfy
\* every supplied filter, each once.
C8_ListPostsAppliesEverySuppliedFilter == ListPostsSelects(NotSupplied)

\* C8 as amended: list_posts returns exactly the stored posts that satisfy
\* every filter that is neither None nor the empty string, each once.
C8_ListPostsAppliesEveryNonEmptyFilter == ListPostsSelects(NoneOrEmpty)

C8_Witness ==
    /\ ret.op = "list_posts"
    /\ ret.args = <<"", "draft">>
    /\ Len(ret.value) = 2
    /\ Len(posts) = 3
    /\ \E j \in DOMAIN ret.value : ret.value[j].platform = "instagram"

\* C10: every document export_json returns describes one state of the
\* store: the by_status counts of its stats sum to the length of its posts
\* array and count each status as often as the array holds it.
C10_ExportDescribesOneState ==
    ret.op = "export_json" =>
        LET doc == ret.value
            held == {doc.posts[j].status : j \in DOMAIN doc.posts}
        IN  /\ SumValues(doc.stats.by_status) = Len(doc.posts)
            /\ DOMAIN doc.stats.by_status = held
            /\ \A k \in held :
                 doc.stats.by_status[k] =
                     Cardinality({j \in DOMAIN doc.posts : doc.posts[j].status = k})

=============================================================================
